---------------------------- MODULE Spec2Model ----------------------------
(***************************************************************************)
(* Model of convert_logs_to_excel.py: the blank-line block splitter, the   *)
(* table-block parser, the per-file record builder, the magnitude parser   *)
(* and the driver that orders columns, classifies and sorts the rows.      *)
(*                                                                         *)
(* A Python str is a sequence of one-character strings, so that strip,     *)
(* split, upper, join and the f-strings are computed and not assumed.      *)
(* A dict is a sequence of <<key, value>> pairs in insertion order.        *)
(***************************************************************************)
EXTENDS Integers, Sequences, FiniteSets, TLC

VARIABLES pc, input, output, records, column_order, df, out

vars == <<pc, input, output, records, column_order, df, out>>

(***************************************************************************)
(* Bounds of the model.                                                    *)
(***************************************************************************)
MaxTextLen == 5

MaxLineLen == 4

MaxParamLen == 4

MaxFiles == 3

(***************************************************************************)
(* str helpers.                                                            *)
(***************************************************************************)
\* the whitespace str.strip() and str.split() remove, among the characters used here
WS == {" ", "\t", "\n"}

SeqsUpTo(A, n) == UNION {[1..k -> A] : k \in 0..n}

RECURSIVE LStripSet(_, _)
LStripSet(s, cs) ==
    IF s = <<>> THEN s
    ELSE IF Head(s) \in cs THEN LStripSet(Tail(s), cs) ELSE s

RECURSIVE RStripSet(_, _)
RStripSet(s, cs) ==
    IF s = <<>> THEN s
    ELSE IF s[Len(s)] \in cs THEN RStripSet(SubSeq(s, 1, Len(s) - 1), cs) ELSE s

\* s.strip(chars): every leading and every trailing character of cs goes
StripSet(s, cs) == RStripSet(LStripSet(s, cs), cs)

\* s.strip()
Strip(s) == StripSet(s, WS)

\* text.splitlines(): the lines between the terminators; a terminator is no
\* part of a line, and a final terminator opens no further line
splitlines(text) ==
    LET nl       == {i \in 1..Len(text) : text[i] = "\n"}
        n        == Cardinality(nl) +
                    (IF text # <<>> /\ text[Len(text)] # "\n" THEN 1 ELSE 0)
        Nth(k)   == CHOOSE p \in nl : Cardinality({q \in nl : q <= p}) = k
        first(k) == IF k = 1 THEN 1 ELSE Nth(k - 1) + 1
        last(k)  == IF k <= Cardinality(nl) THEN Nth(k) - 1 ELSE Len(text)
    IN  [k \in 1..n |-> SubSeq(text, first(k), last(k))]

(***************************************************************************)
(* split_blocks                                                            *)
(***************************************************************************)
RECURSIVE SplitLoop(_, _, _, _)
SplitLoop(lines, i, blocks, current) ==
    IF i > Len(lines)
    THEN (IF current # <<>> THEN Append(blocks, current) ELSE blocks)
    ELSE IF Strip(lines[i]) = <<>>
         THEN IF current # <<>>
              THEN SplitLoop(lines, i + 1, Append(blocks, current), <<>>)
              ELSE SplitLoop(lines, i + 1, blocks, current)
         ELSE SplitLoop(lines, i + 1, blocks,
                        Append(current, RStripSet(lines[i], {"\n"})))

\* the loop without the flush of the last block after it
RECURSIVE SplitLoopNoFlush(_, _, _, _)
SplitLoopNoFlush(lines, i, blocks, current) ==
    IF i > Len(lines)
    THEN blocks
    ELSE IF Strip(lines[i]) = <<>>
         THEN IF current # <<>>
              THEN SplitLoopNoFlush(lines, i + 1, Append(blocks, current), <<>>)
              ELSE SplitLoopNoFlush(lines, i + 1, blocks, current)
         ELSE SplitLoopNoFlush(lines, i + 1, blocks,
                               Append(current, RStripSet(lines[i], {"\n"})))

split_blocks_noflush(text) == SplitLoopNoFlush(splitlines(text), 1, <<>>, <<>>)

split_blocks(text) == SplitLoop(splitlines(text), 1, <<>>, <<>>)

(***************************************************************************)
(* Specification SpecSplit: split_blocks applied to every text of at most  *)
(* MaxTextLen characters over TextAlphabet.                                *)
(***************************************************************************)
TextAlphabet == {"a", " ", "|", "\n"}

Idle == <<>>

InitSplit ==
    /\ pc = "call"
    /\ input \in SeqsUpTo(TextAlphabet, MaxTextLen)
    /\ output = Idle
    /\ records = <<>>
    /\ column_order = <<>>
    /\ df = <<>>
    /\ out = <<>>

CallSplitBlocks ==
    /\ pc = "call"
    /\ output' = split_blocks(input)
    /\ pc' = "ret"
    /\ UNCHANGED <<input, records, column_order, df, out>>

NextSplit == CallSplitBlocks

SpecSplit == InitSplit /\ [][NextSplit]_vars

\* the lines of a text, and which of them are blank
IsBlankLine(l) == \A i \in 1..Len(l) : l[i] \in WS

RunStarts(lines) ==
    {i \in 1..Len(lines) :
        /\ ~IsBlankLine(lines[i])
        /\ (i = 1 \/ IsBlankLine(lines[i - 1]))}

RunEnd(lines, s) ==
    CHOOSE e \in s..Len(lines) :
        /\ \A j \in s..e : ~IsBlankLine(lines[j])
        /\ (e = Len(lines) \/ IsBlankLine(lines[e + 1]))

\* C10: split_blocks returns the maximal runs of consecutive non-blank lines,
\* in order: as many blocks as there are runs, the k-th block being the k-th
\* run; no block is empty or holds a blank line; a text of blank lines only
\* gives no block; a non-empty text without a blank line gives one block, the
\* list of its lines (line terminators removed, inner whitespace kept).
C10_MaximalRuns ==
    pc = "ret" =>
        LET lines  == splitlines(input)
            starts == RunStarts(lines)
        IN  /\ Len(output) = Cardinality(starts)
            /\ \A k \in 1..Len(output) :
                  \E s \in starts :
                      /\ Cardinality({t \in starts : t <= s}) = k
                      /\ output[k] = SubSeq(lines, s, RunEnd(lines, s))
            /\ \A k \in 1..Len(output) :
                  /\ output[k] # <<>>
                  /\ \A j \in 1..Len(output[k]) : ~IsBlankLine(output[k][j])
            /\ (\A i \in 1..Len(lines) : IsBlankLine(lines[i])) => output = <<>>
            /\ (lines # <<>> /\ \A i \in 1..Len(lines) : ~IsBlankLine(lines[i]))
                  => output = <<lines>>

\* a text with a leading blank line, two runs and a last run that no blank line closes
C10_Witness ==
    /\ pc = "ret"
    /\ input = <<"\n", "a", "\n", "\n", "|">>
    /\ output = << <<<<"a">>>>, <<<<"|">>>> >>

(***************************************************************************)
(* parse_block                                                             *)
(***************************************************************************)
ESTIMATE_COLUMNS ==
    <<
       <<"A", "R", "C", "H">>,
       <<"C", "O", "N", "T", "E", "X", "T", " ", "S", "I", "Z", "E">>,
       <<"B", "A", "T", "C", "H", " ", "S", "I", "Z", "E", " ", "(", "L", " ", "/", " ", "P", ")">>,
       <<"F", "L", "A", "S", "H", " ", "A", "T", "T", "E", "N", "T", "I", "O", "N">>,
       <<"M", "M", "A", "P", " ", "L", "O", "A", "D">>,
       <<"E", "M", "B", "E", "D", "D", "I", "N", "G", " ", "O", "N", "L", "Y">>,
       <<"R", "E", "R", "A", "N", "K", "I", "N", "G">>,
       <<"D", "I", "S", "T", "R", "I", "B", "U", "T", "A", "B", "L", "E">>,
       <<"O", "F", "F", "L", "O", "A", "D", " ", "L", "A", "Y", "E", "R", "S">>,
       <<"F", "U", "L", "L", " ", "O", "F", "F", "L", "O", "A", "D", "E", "D">>,
       <<"R", "A", "M", " ", "L", "A", "Y", "E", "R", "S", " ", "(", "I", " ", "+", " ", "T", " ", "+", " ", "O", ")">>,
       <<"R", "A", "M", " ", "U", "M", "A">>,
       <<"R", "A", "M", " ", "N", "O", "N", "U", "M", "A">>,
       <<"V", "R", "A", "M", "0", " ", "L", "A", "Y", "E", "R", "S", " ", "(", "T", " ", "+", " ", "O", ")">>,
       <<"V", "R", "A", "M", "0", " ", "U", "M", "A">>,
       <<"V", "R", "A", "M", "0", " ", "N", "O", "N", "U", "M", "A">>
    >>

\* the None of Python: no str, since a str holds one-character strings only
None == <<"None">>

LowerChars == <<"a", "b", "c", "d", "e", "f", "g", "h", "i", "j", "k", "l", "m", "n", "o", "p", "q", "r", "s", "t", "u", "v", "w", "x", "y", "z">>
UpperChars == <<"A", "B", "C", "D", "E", "F", "G", "H", "I", "J", "K", "L", "M", "N", "O", "P", "Q", "R", "S", "T", "U", "V", "W", "X", "Y", "Z">>
DigitChars == <<"0", "1", "2", "3", "4", "5", "6", "7", "8", "9">>

UpperChar(c) ==
    IF \E i \in 1..Len(LowerChars) : LowerChars[i] = c
    THEN UpperChars[CHOOSE i \in 1..Len(LowerChars) : LowerChars[i] = c]
    ELSE c

\* s.upper()
Upper(s) == [i \in 1..Len(s) |-> UpperChar(s[i])]

RECURSIVE SplitFrom(_, _, _, _)
SplitFrom(s, i, cur, sep) ==
    IF i > Len(s) THEN <<cur>>
    ELSE IF s[i] = sep THEN <<cur>> \o SplitFrom(s, i + 1, <<>>, sep)
    ELSE SplitFrom(s, i + 1, Append(cur, s[i]), sep)

\* s.split(sep): one piece more than there are separators, empty pieces kept
SplitOn(s, sep) == SplitFrom(s, 1, <<>>, sep)

RECURSIVE SplitWSFrom(_, _, _)
SplitWSFrom(s, i, cur) ==
    IF i > Len(s) THEN (IF cur = <<>> THEN <<>> ELSE <<cur>>)
    ELSE IF s[i] \in WS
         THEN (IF cur = <<>> THEN <<>> ELSE <<cur>>) \o SplitWSFrom(s, i + 1, <<>>)
         ELSE SplitWSFrom(s, i + 1, Append(cur, s[i]))

\* s.split(): the words between runs of whitespace
SplitWS(s) == SplitWSFrom(s, 1, <<>>)

RECURSIVE Join(_, _)
Join(pieces, sep) ==
    IF pieces = <<>> THEN <<>>
    ELSE IF Len(pieces) = 1 THEN pieces[1]
    ELSE pieces[1] \o sep \o Join(Tail(pieces), sep)

RECURSIVE Str(_)
\* str(n) of a natural number
Str(n) ==
    IF n < 10 THEN <<DigitChars[n + 1]>>
    ELSE Str(n \div 10) \o <<DigitChars[(n % 10) + 1]>>

\* a dict as a sequence of <<key, value>> pairs in insertion order
Keys(d) == [i \in 1..Len(d) |-> d[i][1]]

HasKey(d, k) == \E i \in 1..Len(d) : d[i][1] = k

Lookup(d, k) == d[CHOOSE i \in 1..Len(d) : d[i][1] = k][2]

\* d[k] = v: a key already there keeps its place and takes the new value
DictSet(d, k, v) ==
    IF HasKey(d, k)
    THEN [i \in 1..Len(d) |-> IF d[i][1] = k THEN <<k, v>> ELSE d[i]]
    ELSE Append(d, <<k, v>>)

RECURSIVE DictZipFrom(_, _, _, _)
DictZipFrom(ks, vs, i, d) ==
    IF i > Len(ks) \/ i > Len(vs) THEN d
    ELSE DictZipFrom(ks, vs, i + 1, DictSet(d, ks[i], vs[i]))

\* dict(zip(ks, vs))
DictZip(ks, vs) == DictZipFrom(ks, vs, 1, <<>>)

StartsWithBar(line) == line # <<>> /\ line[1] = "|"

\* rows = [line for line in block if line.startswith("|")]
Rows(block) == SelectSeq(block, StartsWithBar)

\* [cell.strip() for cell in row.strip("|").split("|")]
ParseRow(row) ==
    LET cells == SplitOn(StripSet(row, {"|"}), "|")
    IN  [i \in 1..Len(cells) |-> Strip(cells[i])]

Parsed(block) == LET rows == Rows(block) IN [i \in 1..Len(rows) |-> ParseRow(rows[i])]

MoreThanOneCell(r) == Len(r) > 1

\* table_rows = [r for r in parsed[1:] if len(r) > 1]
TableRows(parsed) == SelectSeq(Tail(parsed), MoreThanOneCell)

\* " ".join(col.split())
NormalizeColumn(col) == Join(SplitWS(col), <<" ">>)

ExtraName(i) == <<"E", "X", "T", "R", "A", "_">> \o Str(i)

\* the columns before the lengths are reconciled
ResolveColumns(label, table_rows) ==
    LET columns == IF label = <<"E", "S", "T", "I", "M", "A", "T", "E">> THEN ESTIMATE_COLUMNS ELSE table_rows[1]
    IN  [i \in 1..Len(columns) |-> NormalizeColumn(columns[i])]

\* the column/data mismatch rule
ReconcileColumns(columns, data_row) ==
    IF Len(columns) < Len(data_row)
    THEN columns \o [j \in 1..(Len(data_row) - Len(columns)) |->
                        ExtraName(Len(columns) + j - 1)]
    ELSE IF Len(columns) > Len(data_row)
         THEN SubSeq(columns, 1, Len(data_row))
         ELSE columns

parse_block(block) ==
    IF Rows(block) = <<>>
    THEN [label |-> None, values |-> <<>>]
    ELSE LET parsed     == Parsed(block)
             label      == Upper(parsed[1][1])
             table_rows == TableRows(parsed)
         IN  IF table_rows = <<>>
             THEN [label |-> label, values |-> <<>>]
             ELSE LET data_row == table_rows[Len(table_rows)]
                      columns  == ReconcileColumns(ResolveColumns(label, table_rows),
                                                   data_row)
                  IN  [label |-> label, values |-> DictZip(columns, data_row)]


(***************************************************************************)
(* Specification SpecBlock: parse_block applied to every one-line block of *)
(* at most MaxLineLen characters over RowAlphabet, and to the blocks made  *)
(* of a label line, at most one line after it, and a last line.            *)
(***************************************************************************)
RowAlphabet == {"|", "a", " "}

IsBlank(l) == \A i \in 1..Len(l) : l[i] \in WS

\* a block holds no blank line (split_blocks)
OneLineBlocks == {<<l>> : l \in {x \in SeqsUpTo(RowAlphabet, MaxLineLen) : ~IsBlank(x)}}

LabelLines ==
    { <<"|", " ", "E", "S", "T", "I", "M", "A", "T", "E", " ", "|">>, <<"|", "E", "s", "t", "i", "m", "a", "t", "e", "|">>, <<"|", " ", "M", "E", "T", "A", "D", "A", "T", "A", " ", "|">>, <<"|", "T", "|">> }

MiddleLines ==
    { <<"|", " ", "N", "A", "M", "E", " ", "|", " ", "P", "A", "R", "A", "M", "E", "T", "E", "R", "S", " ", "|">>, <<"|", "A", "|", "A", "|">>, <<"|", " ", "C", "O", "N", "T", "E", "X", "T", " ", " ", " ", "S", "I", "Z", "E", " ", "|", " ", "B", " ", "|", " ", "C", " ", "|">>,
      <<"|", "x", "|">>, <<"+", "-", "-", "-", "+">> }

LastLines ==
    { <<"|", " ", "m", "1", " ", "|", " ", "7", ".", "5", " ", "B", " ", "|">>, <<"|", "1", "|", "2", "|", "3", "|">>, <<"|", "a", "|", "|">>, <<"|", "z", "|">>,
      <<"|", "1", "|", "2", "|", "3", "|", "4", "|", "5", "|", "6", "|", "7", "|", "8", "|", "9", "|", "1", "0", "|", "1", "1", "|", "1", "2", "|", "1", "3", "|", "1", "4", "|", "1", "5", "|", "1", "6", "|">>,
      <<"|", "1", "|", "2", "|", "3", "|", "4", "|", "5", "|", "6", "|", "7", "|", "8", "|", "9", "|", "1", "0", "|", "1", "1", "|", "1", "2", "|", "1", "3", "|", "1", "4", "|", "1", "5", "|", "1", "6", "|", "1", "7", "|">>,
      <<"|", "1", "|", "2", "|", "3", "|", "4", "|", "5", "|", "6", "|", "7", "|", "8", "|", "9", "|", "1", "0", "|", "1", "1", "|", "1", "2", "|", "1", "3", "|", "1", "4", "|", "1", "5", "|", "1", "6", "|", "1", "7", "|", "1", "8", "|">> }

MenuBlocks ==
    {<<lab>> \o mid \o <<last>> :
        lab \in LabelLines,
        mid \in {<<>>} \cup {<<m>> : m \in MiddleLines},
        last \in LastLines}

BlockInputs == OneLineBlocks \cup MenuBlocks

InitBlock ==
    /\ pc = "call"
    /\ input \in BlockInputs
    /\ output = Idle
    /\ records = <<>>
    /\ column_order = <<>>
    /\ df = <<>>
    /\ out = <<>>

CallParseBlock ==
    /\ pc = "call"
    /\ output' = [rows |-> Parsed(input), result |-> parse_block(input)]
    /\ pc' = "ret"
    /\ UNCHANGED <<input, records, column_order, df, out>>

NextBlock == CallParseBlock

SpecBlock == InitBlock /\ [][NextBlock]_vars

\* the data row of a block that has one
HasDataRow(block) == Rows(block) # <<>> /\ TableRows(Parsed(block)) # <<>>

DataRow(block) == LET t == TableRows(Parsed(block)) IN t[Len(t)]

LabelOf(block) == Upper(Parsed(block)[1][1])

\* C1: a data row longer than the resolved column list gives one entry per data
\* cell: the first len(columns) cells under the column names, the k-th surplus
\* cell (from 0) under EXTRA_k; no data cell is dropped.
C1_ExtraFromZero ==
    (pc = "ret" /\ HasDataRow(input)) =>
        LET data    == DataRow(input)
            columns == ResolveColumns(LabelOf(input), TableRows(Parsed(input)))
            values  == output.result.values
        IN  Len(data) > Len(columns) =>
                /\ Len(values) = Len(data)
                /\ \A i \in 1..Len(columns) : values[i] = <<columns[i], data[i]>>
                /\ \A k \in 0..(Len(data) - Len(columns) - 1) :
                       values[Len(columns) + k + 1] =
                           <<<<"E", "X", "T", "R", "A", "_">> \o Str(k), data[Len(columns) + k + 1]>>

\* the fixed schema cut to n names, or followed by EXTRA_0, EXTRA_1, ...
EstimateKeys(n) ==
    IF n <= Len(ESTIMATE_COLUMNS)
    THEN SubSeq(ESTIMATE_COLUMNS, 1, n)
    ELSE ESTIMATE_COLUMNS \o
         [k \in 1..(n - Len(ESTIMATE_COLUMNS)) |-> <<"E", "X", "T", "R", "A", "_">> \o Str(k - 1)]

\* two blocks that differ only in the rows between the label row and the data row
SameButHeaders(b1, b2) ==
    /\ HasDataRow(b1) /\ HasDataRow(b2)
    /\ Parsed(b1)[1] = Parsed(b2)[1]
    /\ DataRow(b1) = DataRow(b2)

\* C4: for a block labelled ESTIMATE that has a data row, the keys of values are
\* the fixed 16-name schema cut to the data row's length or extended with the
\* EXTRA names of the mismatch rule, each key holding the data cell at its index,
\* and the result is that of every block that differs only in its header rows.
C4_EstimateSchema ==
    (pc = "ret" /\ HasDataRow(input) /\ LabelOf(input) = <<"E", "S", "T", "I", "M", "A", "T", "E">>) =>
        LET data == DataRow(input)
            keys == EstimateKeys(Len(data))
        IN  /\ output.result.values = [i \in 1..Len(data) |-> <<keys[i], data[i]>>]
            /\ \A b \in BlockInputs :
                   SameButHeaders(input, b) => parse_block(b) = output.result

\* the part of C4 that does not depend on how the surplus names are numbered
EstimateIgnoresHeaders ==
    (pc = "ret" /\ HasDataRow(input) /\ LabelOf(input) = <<"E", "S", "T", "I", "M", "A", "T", "E">>) =>
        /\ \A b \in BlockInputs :
               SameButHeaders(input, b) => parse_block(b) = output.result
        /\ \A i \in 1..Len(output.result.values) :
               /\ output.result.values[i][2] = DataRow(input)[i]
               /\ i <= Len(ESTIMATE_COLUMNS)
                     => output.result.values[i][1] = ESTIMATE_COLUMNS[i]
        /\ Len(output.result.values) = Len(DataRow(input))

\* one leading and one trailing '|' removed, the rest split on '|', cells trimmed
OneBarEachSide(line) ==
    LET a == Tail(line)
        b == IF a # <<>> /\ a[Len(a)] = "|" THEN SubSeq(a, 1, Len(a) - 1) ELSE a
        cells == SplitOn(b, "|")
    IN  [i \in 1..Len(cells) |-> Strip(cells[i])]

\* C8: the rows of a block are its lines that start with '|', one Row per such
\* line in the original order, each obtained by removing exactly one leading and
\* one trailing '|', splitting on '|' and trimming the cells: empty cells at the
\* start or the end of a line are kept.
C8_OneBarEachSide ==
    pc = "ret" =>
        LET lines == SelectSeq(input, StartsWithBar)
        IN  output.rows = [i \in 1..Len(lines) |-> OneBarEachSide(lines[i])]

(***************************************************************************)
(* parse_parameters and size_category                                      *)
(*                                                                         *)
(* A parameter count is the exact decimal m * 10^e, kept in its normal     *)
(* form (m not a multiple of 10, or m = 0 and e = 0).  TLC's integers have *)
(* 32 bits and 10^11 does not fit, hence the exponent.  Rounding of the    *)
(* binary float is not modelled.                                           *)
(***************************************************************************)
NoneNum == [t |-> "none", m |-> 0, e |-> 0]

\* the float nan
NaN == [t |-> "nan", m |-> 0, e |-> 0]

RECURSIVE Normal(_, _)
Normal(m, e) ==
    IF m = 0 THEN [t |-> "num", m |-> 0, e |-> 0]
    ELSE IF m % 10 = 0 THEN Normal(m \div 10, e + 1)
    ELSE [t |-> "num", m |-> m, e |-> e]

\* the cell of a DataFrame column that a record has no value for
NaNCell == <<"NaN">>

\* str(value)
ToStr(value) == IF value = NaNCell THEN <<"n", "a", "n">> ELSE value

IsDigit(c) == \E i \in 1..Len(DigitChars) : DigitChars[i] = c

DigitValue(c) == (CHOOSE i \in 1..Len(DigitChars) : DigitChars[i] = c) - 1

RECURSIVE DigitsValue(_)
DigitsValue(s) ==
    IF s = <<>> THEN 0
    ELSE 10 * DigitsValue(SubSeq(s, 1, Len(s) - 1)) + DigitValue(s[Len(s)])

DigitSet == {DigitChars[i] : i \in 1..Len(DigitChars)}

RECURSIVE RunLen(_, _, _)
\* how many characters of s from position i on are in cs
RunLen(s, i, cs) ==
    IF i > Len(s) THEN 0
    ELSE IF s[i] \in cs THEN 1 + RunLen(s, i + 1, cs) ELSE 0

UnitChars == {"K", "M", "B", "k", "m", "b"}

NoMatch == [matched |-> FALSE, int |-> <<>>, frac |-> <<>>, unit |-> ""]

\* re.match(r"([0-9]+(?:\.[0-9]+)?)\s*([KMBkmb])", text): the groups, or None.
\* Each repetition is greedy, and giving a character back never helps: the
\* character after a shorter run is one the next part of the pattern refuses.
ReMatch(text) ==
    LET nd   == RunLen(text, 1, DigitSet)
        dot  == nd + 1
        nf   == IF dot <= Len(text) /\ text[dot] = "."
                THEN RunLen(text, dot + 1, DigitSet) ELSE 0
        rest == IF nf > 0 THEN dot + nf + 1 ELSE dot
        unit == rest + RunLen(text, rest, WS)
    IN  IF nd > 0 /\ unit <= Len(text) /\ text[unit] \in UnitChars
        THEN [matched |-> TRUE,
              int     |-> SubSeq(text, 1, nd),
              frac    |-> IF nf > 0 THEN SubSeq(text, dot + 1, dot + nf) ELSE <<>>,
              unit    |-> text[unit]]
        ELSE NoMatch

\* the multiplier of a unit, as a power of ten
MultiplierExp(unit) ==
    CASE UpperChar(unit) = "K" -> 3
      [] UpperChar(unit) = "M" -> 6
      [] UpperChar(unit) = "B" -> 9

\* the function without the strip() of the text
parse_parameters_nostrip(value) ==
    IF value = None THEN NoneNum
    ELSE LET text == ToStr(value)
         IN  IF text = <<>> THEN NoneNum
             ELSE LET match == ReMatch(text)
                  IN  IF ~match.matched THEN NoneNum
                      ELSE Normal(DigitsValue(match.int \o match.frac),
                                  MultiplierExp(match.unit) - Len(match.frac))

parse_parameters(value) ==
    IF value = None THEN NoneNum
    ELSE LET text == Strip(ToStr(value))
         IN  IF text = <<>> THEN NoneNum
             ELSE LET match == ReMatch(text)
                  IN  IF ~match.matched THEN NoneNum
                      ELSE Normal(DigitsValue(match.int \o match.frac),
                                  MultiplierExp(match.unit) - Len(match.frac))

RECURSIVE Pow10(_)
Pow10(n) == IF n = 0 THEN 1 ELSE 10 * Pow10(n - 1)

RECURSIVE NumDigits(_)
NumDigits(m) == IF m < 10 THEN 1 ELSE 1 + NumDigits(m \div 10)

\* m * 10^e < 10^t, for a count in normal form
LessPow10(p, t) == p.m = 0 \/ NumDigits(p.m) + p.e <= t

Small == <<"S", "m", "a", "l", "l", " ", "(", "<", "1", "B", ")">>
Medium == <<"M", "e", "d", "i", "u", "m", " ", "(", "1", "-", "1", "0", "B", ")">>
Large == <<"L", "a", "r", "g", "e", " ", "(", "1", "0", "-", "1", "0", "0", "B", ")">>
UltraLarge == <<"U", "l", "t", "r", "a", "-", "L", "a", "r", "g", "e", " ", "(", "1", "0", "0", "B", "+", ")">>
Unknown == <<"U", "n", "k", "n", "o", "w", "n">>

\* every comparison with the float nan is False
size_category(params) ==
    IF params = NoneNum THEN Unknown
    ELSE IF params # NaN /\ LessPow10(params, 9) THEN Small
    ELSE IF params # NaN /\ LessPow10(params, 10) THEN Medium
    ELSE IF params # NaN /\ LessPow10(params, 11) THEN Large
    ELSE UltraLarge

(***************************************************************************)
(* Specification SpecParams: parse_parameters applied to None, to the NaN  *)
(* of a missing cell, to every string of at most MaxParamLen characters    *)
(* over ParamAlphabet and to ParamSamples.                                 *)
(***************************************************************************)
ParamAlphabet == {"1", "5", ".", " ", "K", "m", "B", "x"}

ParamSamples ==
    { <<"2", "2", ".", "5", "7", " ", "M">>, <<"1", ".", "7", "8", "B">>, <<"a", "b", "c">>, <<"5", "0", "0", " ", "k">>, <<"7", ".", "5", " ", "b">>, <<"3", "M">>, <<"n", "a", "n">>,
      <<" ", "1", "2", "K", " ">>, <<"0", ".", "5", "0", "K">>, <<"1", "0", "0", " ", "B", " ", "t", "o", "k", "e", "n", "s">>, <<"1", "2", ".", " ", "K">> }

ParamInputs ==
    {None, NaNCell} \cup SeqsUpTo(ParamAlphabet, MaxParamLen) \cup ParamSamples

InitParams ==
    /\ pc = "call"
    /\ input \in ParamInputs
    /\ output = Idle
    /\ records = <<>>
    /\ column_order = <<>>
    /\ df = <<>>
    /\ out = <<>>

CallParseParameters ==
    /\ pc = "call"
    /\ output' = parse_parameters(input)
    /\ pc' = "ret"
    /\ UNCHANGED <<input, records, column_order, df, out>>

NextParams == CallParseParameters

SpecParams == InitParams /\ [][NextParams]_vars

\* text[from..to] is a non-empty run of digits
AllDigits(text, from, to) ==
    from <= to /\ \A i \in from..to : IsDigit(text[i])

\* the ways text starts with digits, optional '.digits', optional whitespace and
\* a unit letter: <<end of the digits, end of the fraction, place of the unit>>
Magnitudes(text) ==
    {d \in (1..Len(text)) \X (1..Len(text)) \X (1..Len(text)) :
        /\ AllDigits(text, 1, d[1])
        /\ \/ d[2] = d[1]
           \/ /\ d[2] > d[1] + 1
              /\ text[d[1] + 1] = "."
              /\ AllDigits(text, d[1] + 2, d[2])
        /\ d[3] > d[2]
        /\ \A i \in (d[2] + 1)..(d[3] - 1) : text[i] \in WS
        /\ text[d[3]] \in UnitChars}

UnitExp(c) ==
    IF c \in {"K", "k"} THEN 3 ELSE IF c \in {"M", "m"} THEN 6 ELSE 9

\* the count p is digits * 10^exp
IsValue(p, digits, exp) ==
    /\ p.t = "num"
    /\ IF digits = 0 THEN p.m = 0
       ELSE /\ p.m # 0 /\ p.m % 10 # 0
            /\ p.e >= exp
            /\ p.e - exp <= NumDigits(digits)
            /\ digits = p.m * Pow10(p.e - exp)

\* C9: parse_parameters returns absent for absent or blank input and for every
\* string that, trimmed, does not start with digits, optional '.digits',
\* optional whitespace and one unit letter of K k M m B b; for every other
\* string it returns the amount times the unit's multiplier (K 10^3, M 10^6,
\* B 10^9, either case).
C9_MagnitudeOrAbsent ==
    pc = "ret" =>
        IF input = None THEN output = NoneNum
        ELSE LET text == Strip(ToStr(input))
                 ways == Magnitudes(text)
             IN  IF ways = {} THEN output = NoneNum
                 ELSE \A d \in ways :
                        IsValue(output,
                                DigitsValue(SubSeq(text, 1, d[1]) \o
                                            SubSeq(text, d[1] + 2, d[2])),
                                UnitExp(text[d[3]]) - (IF d[2] > d[1]
                                                       THEN d[2] - d[1] - 1 ELSE 0))

\* "22.57 M" gives 22 570 000 = 2257 * 10^4
C9_Witness ==
    /\ pc = "ret"
    /\ input = <<"2", "2", ".", "5", "7", " ", "M">>
    /\ output = [t |-> "num", m |-> 2257, e |-> 4]


(***************************************************************************)
(* parse_file                                                              *)
(***************************************************************************)
FileKey == <<"f", "i", "l", "e">>

\* parse_file's None.  main tests "not record", which None and the empty dict
\* both satisfy; a record is never empty, it holds "file".
NoRecord == <<>>

\* f"{label}_{col}"
PrefixedKey(label, col) == label \o <<"_">> \o col

RECURSIVE MergeValuesFrom(_, _, _, _)
\* for col, val in values.items(): record[f"{label}_{col}"] = val
MergeValuesFrom(record, label, values, i) ==
    IF i > Len(values) THEN record
    ELSE MergeValuesFrom(
             DictSet(record, PrefixedKey(label, values[i][1]), values[i][2]),
             label, values, i + 1)

\* "not label": None or the empty string
LabelFalsy(label) == label = None \/ label = <<>>

RECURSIVE FileLoop(_, _, _)
FileLoop(record, blocks, i) ==
    IF i > Len(blocks) THEN record
    ELSE LET parsed == parse_block(blocks[i])
         IN  IF LabelFalsy(parsed.label) \/ parsed.values = <<>>
             THEN FileLoop(record, blocks, i + 1)
             ELSE FileLoop(MergeValuesFrom(record, parsed.label, parsed.values, 1),
                           blocks, i + 1)

\* the loop that keeps the first value written under a key
RECURSIVE FileLoopFirstWins(_, _, _)
FileLoopFirstWins(record, blocks, i) ==
    IF i > Len(blocks) THEN record
    ELSE LET parsed == parse_block(blocks[i])
             merged == MergeValuesFrom(<<>>, parsed.label, parsed.values, 1)
             fresh  == SelectSeq(merged, LAMBDA kv : ~HasKey(record, kv[1]))
         IN  IF LabelFalsy(parsed.label) \/ parsed.values = <<>>
             THEN FileLoopFirstWins(record, blocks, i + 1)
             ELSE FileLoopFirstWins(record \o fresh, blocks, i + 1)

parse_file_first_wins(name, text) ==
    IF Strip(text) = <<>> THEN NoRecord
    ELSE FileLoopFirstWins(<< <<FileKey, name>> >>, split_blocks(text), 1)

parse_file(name, text) ==
    IF Strip(text) = <<>> THEN NoRecord
    ELSE FileLoop(<< <<FileKey, name>> >>, split_blocks(text), 1)

(***************************************************************************)
(* main                                                                    *)
(***************************************************************************)
ParametersKey == <<"M", "E", "T", "A", "D", "A", "T", "A", "_", "P", "A", "R", "A", "M", "E", "T", "E", "R", "S">>

CategoryKey == <<"M", "O", "D", "E", "L", "_", "S", "I", "Z", "E", "_", "C", "A", "T", "E", "G", "O", "R", "Y">>

\* the name of the i-th file of sorted(root.glob("*.txt"))
FileName(i) == <<"f">> \o Str(i) \o <<".", "t", "x", "t">>

RECURSIVE ExtendOrderFrom(_, _, _)
\* for key in record: if key not in column_order: column_order.append(key)
ExtendOrderFrom(order, keys, i) ==
    IF i > Len(keys) THEN order
    ELSE IF \E j \in 1..Len(order) : order[j] = keys[i]
         THEN ExtendOrderFrom(order, keys, i + 1)
         ELSE ExtendOrderFrom(Append(order, keys[i]), keys, i + 1)

\* the loop that puts a new key first
RECURSIVE ExtendOrderInFront(_, _)
ExtendOrderInFront(order, keys) ==
    IF keys = <<>> THEN order
    ELSE IF \E j \in 1..Len(order) : order[j] = Head(keys)
         THEN ExtendOrderInFront(order, Tail(keys))
         ELSE ExtendOrderInFront(<<Head(keys)>> \o order, Tail(keys))

ExtendOrder(order, keys) == ExtendOrderFrom(order, keys, 1)

\* the cell of column key in the row of the DataFrame made from a record
Cell(record, key) == IF HasKey(record, key) THEN Lookup(record, key) ELSE NaNCell

\* Series.apply infers the dtype of its results: None next to a float becomes
\* the float nan (dtype float64); results that are all None stay None (object)
ApplyInfer(results) ==
    IF \E i \in 1..Len(results) : results[i].t = "num"
    THEN [i \in 1..Len(results) |->
             IF results[i] = NoneNum THEN NaN ELSE results[i]]
    ELSE results

\* params_raw = df["METADATA_PARAMETERS"].apply(parse_parameters)
ParamsRaw(recs) ==
    ApplyInfer([i \in 1..Len(recs) |-> parse_parameters(Cell(recs[i], ParametersKey))])

\* the column order after MODEL_SIZE_CATEGORY is inserted
InsertCategory(order) ==
    LET has == \E j \in 1..Len(order) : order[j] = ParametersKey
        insert_at == IF has
                     THEN CHOOSE j \in 1..Len(order) : order[j] = ParametersKey
                     ELSE Len(order)
    IN  IF \E j \in 1..Len(order) : order[j] = CategoryKey
        THEN order
        ELSE SubSeq(order, 1, insert_at) \o <<CategoryKey>> \o
             SubSeq(order, insert_at + 1, Len(order))

\* bucket_order, with fillna(4)
BucketOrder(category) ==
    CASE category = Small -> 0
      [] category = Medium -> 1
      [] category = Large -> 2
      [] category = UltraLarge -> 3
      [] OTHER -> 4

IsNA(p) == p.t # "num"

\* p <= q for two counts in normal form
LessEqNum(p, q) ==
    IF p.m = 0 THEN TRUE
    ELSE IF q.m = 0 THEN FALSE
    ELSE LET mp == NumDigits(p.m) + p.e
             mq == NumDigits(q.m) + q.e
             lo == IF p.e < q.e THEN p.e ELSE q.e
         IN  IF mp # mq THEN mp < mq
             ELSE p.m * Pow10(p.e - lo) <= q.m * Pow10(q.e - lo)

\* row a sorts strictly before row b: by _bucket_order, then by _params_sort,
\* ascending, None and nan last (na_position = "last")
SortsBefore(a, b) ==
    LET ba == BucketOrder(Cell(a.row, CategoryKey))
        bb == BucketOrder(Cell(b.row, CategoryKey))
    IN  \/ ba < bb
        \/ /\ ba = bb
           /\ ~IsNA(a.params_raw)
           /\ (IsNA(b.params_raw) \/ ~LessEqNum(b.params_raw, a.params_raw))

RECURSIVE InsertSorted(_, _)
\* x goes after every row that does not sort after it (the sort is stable)
InsertSorted(sorted, x) ==
    IF sorted = <<>> THEN <<x>>
    ELSE IF SortsBefore(x, Head(sorted)) THEN <<x>> \o sorted
    ELSE <<Head(sorted)>> \o InsertSorted(Tail(sorted), x)

RECURSIVE SortFrom(_, _, _)
SortFrom(rows, i, sorted) ==
    IF i > Len(rows) THEN sorted
    ELSE SortFrom(rows, i + 1, InsertSorted(sorted, rows[i]))

\* the frame left in the order of the files
SortValuesNot(rows) == rows

\* df.sort_values(by=["_bucket_order", "_params_sort"], ascending=[True, True])
SortValues(rows) == SortFrom(rows, 1, <<>>)


(***************************************************************************)
(* Specification Spec: a run of main over a directory of at most MaxFiles  *)
(* files, each holding one of FileTexts.  input is the list of the texts   *)
(* read so far, in the order of the sorted file names.                     *)
(***************************************************************************)
FileTexts ==
    { <<"|", " ", "M", "E", "T", "A", "D", "A", "T", "A", " ", "|", "\n", "|", " ", "N", "A", "M", "E", " ", "|", " ", "P", "A", "R", "A", "M", "E", "T", "E", "R", "S", " ", "|", "\n", "|", " ", "m", "1", " ", "|", " ", "7", ".", "5", " ", "B", " ", "|", "\n">>,
      <<"|", " ", "M", "E", "T", "A", "D", "A", "T", "A", " ", "|", "\n", "+", "-", "-", "-", "+", "\n", "|", " ", "N", "A", "M", "E", " ", "|", " ", "P", "A", "R", "A", "M", "E", "T", "E", "R", "S", " ", "|", "\n", "|", " ", "m", "2", " ", "|", " ", "5", "0", "0", " ", "M", " ", "|", "\n", "\n", "|", " ", "E", "S", "T", "I", "M", "A", "T", "E", " ", "|", "\n", "|", " ", "x", " ", "|", " ", "y", " ", "|", "\n", "|", " ", "l", "l", "a", "m", "a", " ", "|", " ", "4", "0", "9", "6", " ", "|", "\n">>,
      <<"|", "M", "E", "T", "A", "D", "A", "T", "A", "|", "\n", "|", "N", "A", "M", "E", "|", "P", "A", "R", "A", "M", "E", "T", "E", "R", "S", "|", "\n", "|", "m", "3", "|", "a", "b", "c", "|", "\n">>,
      <<"|", " ", "E", "S", "T", "I", "M", "A", "T", "E", " ", "|", "\n", "|", " ", "l", "l", "a", "m", "a", " ", "|", " ", "4", "0", "9", "6", " ", "|", "\n">>,
      <<" ", "\n", "\n">>,
      <<"|", "m", "e", "t", "a", "d", "a", "t", "a", "|", "\n", "|", "N", "A", "M", "E", "|", "P", "A", "R", "A", "M", "E", "T", "E", "R", "S", "|", "\n", "|", "m", "4", "|", "1", " ", "B", "|", "\n", "\n", "|", "M", "E", "T", "A", "D", "A", "T", "A", "|", "\n", "|", "P", "A", "R", "A", "M", "E", "T", "E", "R", "S", "|", "S", "I", "Z", "E", "|", "\n", "|", "2", "0", "0", "B", "|", "9", "|", "\n">>,
      <<"|", "|", "\n", "|", "A", "|", "B", "|", "\n", "|", "1", "|", "2", "|", "\n", "\n", "|", "M", "E", "T", "A", "D", "A", "T", "A", "|", "\n", "|", "N", "A", "M", "E", "|", "P", "A", "R", "A", "M", "E", "T", "E", "R", "S", "|", "\n", "|", "m", "5", "|", "7", "0", " ", "B", "|", "\n">>,
      <<"|", "A", "_", "B", "|", "\n", "|", "C", "|", "D", "|", "\n", "|", "1", "|", "2", "|", "\n", "\n", "|", "A", "|", "\n", "|", "B", "_", "C", "|", "E", "|", "\n", "|", "3", "|", "4", "|", "\n">> }

Init ==
    /\ pc = "load"
    /\ input = <<>>
    /\ output = Idle
    /\ records = <<>>
    /\ column_order = <<FileKey>>
    /\ df = <<>>
    /\ out = <<>>

\* one turn of the loop over the files: an empty file is skipped
LoadFile ==
    /\ pc = "load"
    /\ Len(input) < MaxFiles
    /\ \E text \in FileTexts :
          LET record == parse_file(FileName(Len(input) + 1), text)
          IN  /\ input' = Append(input, text)
              /\ IF record = NoRecord
                 THEN UNCHANGED <<records, column_order>>
                 ELSE /\ column_order' = ExtendOrder(column_order, Keys(record))
                      /\ records' = Append(records, record)
    /\ UNCHANGED <<pc, output, df, out>>

\* the directory holds no further file; without a record main returns
EndLoad ==
    /\ pc = "load"
    /\ pc' = IF records = <<>> THEN "nodata" ELSE "frame"
    /\ UNCHANGED <<input, output, records, column_order, df, out>>

\* the DataFrame, params_raw and the MODEL_SIZE_CATEGORY column;
\* df["METADATA_PARAMETERS"] raises KeyError when no record has the key
BuildFrame ==
    /\ pc = "frame"
    /\ IF \A i \in 1..Len(records) : ~HasKey(records[i], ParametersKey)
       THEN /\ pc' = "KeyError"
            /\ UNCHANGED df
       ELSE /\ pc' = "insert"
            /\ df' = LET params_raw == ParamsRaw(records)
                     IN  [i \in 1..Len(records) |->
                            [row |-> DictSet(records[i], CategoryKey,
                                             size_category(params_raw[i])),
                             params_raw |-> params_raw[i]]]
    /\ UNCHANGED <<input, output, records, column_order, out>>

InsertColumn ==
    /\ pc = "insert"
    /\ column_order' = InsertCategory(column_order)
    /\ pc' = "sort"
    /\ UNCHANGED <<input, output, records, df, out>>

SortFrame ==
    /\ pc = "sort"
    /\ df' = SortValues(df)
    /\ pc' = "write"
    /\ UNCHANGED <<input, output, records, column_order, out>>

\* df.reindex(columns=column_order) and to_csv: the rows of models.csv (the
\* retry after PermissionError writes the same rows to the same path)
WriteCsv ==
    /\ pc = "write"
    /\ out' = [i \in 1..Len(df) |->
                 [j \in 1..Len(column_order) |-> Cell(df[i].row, column_order[j])]]
    /\ pc' = "done"
    /\ UNCHANGED <<input, output, records, column_order, df>>

Next ==
    \/ LoadFile
    \/ EndLoad
    \/ BuildFrame
    \/ InsertColumn
    \/ SortFrame
    \/ WriteCsv

Spec == Init /\ [][Next]_vars

Range(s) == {s[i] : i \in 1..Len(s)}

Framed == pc \in {"insert", "sort", "write", "done"}

\* C2: every record whose METADATA_PARAMETERS value is missing or is no
\* magnitude gets MODEL_SIZE_CATEGORY "Unknown", whatever the other records of
\* the run hold.  (That the run does not fail is settled with C3.)
C2_UnknownCategory ==
    Framed =>
        \A i \in 1..Len(df) :
            parse_parameters(Cell(df[i].row, ParametersKey)) = NoneNum
                => Cell(df[i].row, CategoryKey) = Unknown

\* the column order the loop over the files leaves
RECURSIVE LoadedOrderFrom(_, _, _)
LoadedOrderFrom(recs, i, order) ==
    IF i > Len(recs) THEN order
    ELSE LoadedOrderFrom(recs, i + 1, ExtendOrder(order, Keys(recs[i])))

LoadedOrder == LoadedOrderFrom(records, 1, <<FileKey>>)

IndexOf(s, x) == CHOOSE j \in 1..Len(s) : s[j] = x

\* C3: a run with a record ends with the columns of ColumnOrder and
\* MODEL_SIZE_CATEGORY right after METADATA_PARAMETERS when a record has that
\* key; when none has it the run still completes, MODEL_SIZE_CATEGORY last.
C3_CategoryColumn ==
    /\ pc # "KeyError"
    /\ pc = "done" =>
          LET order == LoadedOrder
          IN  IF ParametersKey \in Range(order)
              THEN LET at == IndexOf(order, ParametersKey)
                   IN  column_order = SubSeq(order, 1, at) \o <<CategoryKey>> \o
                                      SubSeq(order, at + 1, Len(order))
              ELSE column_order = Append(order, CategoryKey)

NoDuplicate(s) == \A i, j \in 1..Len(s) : s[i] = s[j] => i = j

IsPrefix(s, t) == Len(s) <= Len(t) /\ SubSeq(t, 1, Len(s)) = s

OrderInvariant ==
    /\ column_order # <<>> /\ column_order[1] = FileKey
    /\ NoDuplicate(column_order)
    /\ \A i \in 1..Len(records) : Range(Keys(records[i])) \subseteq Range(column_order)

\* a step of the loop over the files keeps the keys seen where they are and
\* appends nothing but keys not seen before
OrderStep ==
    pc = "load" =>
        /\ IsPrefix(column_order, column_order')
        /\ \A j \in (Len(column_order) + 1)..Len(column_order') :
               column_order'[j] \notin Range(column_order)

\* C5: ColumnOrder starts with "file" and holds no key twice, every record's
\* keys are in it, and processing a file never moves a key seen before: it only
\* appends keys that were not there.
C5_ColumnOrder == [](OrderInvariant) /\ [][OrderStep]_vars

\* the second file brought keys the first did not have, after the keys of the first
C5_Witness ==
    /\ pc = "load"
    /\ Len(records) = 2
    /\ Len(column_order) > Len(records[1])
    /\ Keys(records[1]) = SubSeq(column_order, 1, Len(records[1]))
    /\ \E k \in Range(Keys(records[2])) : k \in Range(Keys(records[1])) \ {FileKey}

\* the text of the file a record was built from
TextOf(record) ==
    input[CHOOSE j \in 1..Len(input) : FileName(j) = Lookup(record, FileKey)]

\* the writes of a text: <<block, column, key, value>> for every column of every
\* block that Kept admits
Writes(text, Kept(_)) ==
    LET blocks == split_blocks(text)
    IN  UNION {
          LET p == parse_block(blocks[b])
          IN  IF Kept(p)
              THEN {<<b, c, PrefixedKey(p.label, p.values[c][1]), p.values[c][2]>> :
                        c \in 1..Len(p.values)}
              ELSE {}
          : b \in 1..Len(blocks)}

KeptNotAbsent(p) == p.label # None /\ p.values # <<>>

KeptNotFalsy(p) == p.label # None /\ p.label # <<>> /\ p.values # <<>>

\* C6 as stated: the record holds "file" and one key LABEL_COLUMN per column of
\* every block whose label is not absent and whose values are not empty, and no
\* other key; the value under LABEL_COLUMN is the one of the last block that has
\* that label and column.
C6_AsStated ==
    \A r \in 1..Len(records) :
        LET record == records[r]
            text   == TextOf(record)
            blocks == split_blocks(text)
            writes == Writes(text, KeptNotAbsent)
        IN  /\ Range(Keys(record)) = {FileKey} \cup {w[3] : w \in writes}
            /\ \A b \in 1..Len(blocks) :
                  LET p == parse_block(blocks[b])
                  IN  KeptNotAbsent(p) =>
                        \A c \in 1..Len(p.values) :
                          LET same == {b2 \in 1..Len(blocks) :
                                         /\ KeptNotAbsent(parse_block(blocks[b2]))
                                         /\ parse_block(blocks[b2]).label = p.label
                                         /\ HasKey(parse_block(blocks[b2]).values,
                                                   p.values[c][1])}
                              last == CHOOSE b2 \in same : \A b3 \in same : b3 <= b2
                          IN  Cell(record, PrefixedKey(p.label, p.values[c][1])) =
                                Lookup(parse_block(blocks[last]).values, p.values[c][1])

\* C6 as amended: the blocks merged are those whose label is neither absent nor
\* empty and whose values are not empty; the record holds "file" (the file's
\* name) and the keys LABEL_COLUMN of their columns, each once, and no other
\* key; the value under a key is the one of the last block that produces it.
C6_LastWriteWins ==
    \A r \in 1..Len(records) :
        LET record == records[r]
            writes == Writes(TextOf(record), KeptNotFalsy)
        IN  /\ Strip(TextOf(record)) # <<>>
            /\ NoDuplicate(Keys(record))
            /\ Range(Keys(record)) = {FileKey} \cup {w[3] : w \in writes}
            /\ \A w \in writes :
                  (\A v \in writes : v[3] = w[3] => v[1] <= w[1])
                      => Cell(record, w[3]) = w[4]

\* a record of a file with two METADATA blocks: PARAMETERS is the second block's
C6_Witness ==
    \E r \in 1..Len(records) :
        /\ Cell(records[r], FileKey) = FileName(2)
        /\ Cell(records[r], ParametersKey) = <<"2", "0", "0", "B">>
        /\ Cell(records[r], <<"M", "E", "T", "A", "D", "A", "T", "A", "_", "N", "A", "M", "E">>) = <<"m", "4">>
        /\ \E w \in Writes(TextOf(records[r]), KeptNotFalsy) :
              w[3] = ParametersKey /\ w[4] = <<"1", " ", "B">>

\* the rows of models.csv, by what the file shows of them
OutCell(i, key) == out[i][IndexOf(column_order, key)]

OutBucket(i) == BucketOrder(OutCell(i, CategoryKey))

OutCount(i) == parse_parameters(OutCell(i, ParametersKey))

\* the bucket of the category that the row's own parameter count falls in
OutCountBucket(i) == BucketOrder(size_category(OutCount(i)))

\* rows i and j are in order, for a given bucket of each
InOrder(bi, bj, i, j) ==
    \/ bi < bj
    \/ /\ bi = bj
       /\ \/ OutCount(j) = NoneNum
          \/ /\ OutCount(i) # NoneNum
             /\ LessEqNum(OutCount(i), OutCount(j))

=============================================================================
